---------------------------- MODULE Spec2Model ----------------------------
(***************************************************************************)
(* GroqCoverLetterGenerator (server/cover_letter_generator.py).            *)
(*                                                                         *)
(* The class is single threaded: one public method runs at a time.  pc is  *)
(* the position inside the running method.  The embedding model, the       *)
(* vector index, the text splitter and the Groq client are libraries; each *)
(* is modelled by the set of answers it can give.                          *)
(*                                                                         *)
(* A text is a sequence of one-character strings.                          *)
(***************************************************************************)
EXTENDS Integers, Sequences, FiniteSets, TLC

VARIABLES
    pc,               \* position of the running method, "idle" between calls
    top,              \* the public method the caller invoked
    outcome,          \* what the caller got: pending, returned (a value) or raised
    \* ---- the index storage directory (load_or_create_vector_store)
    vector_store_dir, \* os.path: does self.vector_store_path exist
    storage,          \* store_name -> what is at vector_store_path/store_name
    call,             \* the running load_or_create_vector_store call
    pre,              \* storage when the running call started
    built,            \* store_name -> the text and index of its build, if any
    \* ---- extract_key_information / generate_cover_letter
    resume_store,     \* the resume index passed in (its documents, in order)
    jd_store,         \* the job-description index passed in
    hr_email,
    info,             \* the bundle under construction: label -> context
    searches,         \* the similarity searches performed by the running call
    completions,      \* the requests sent to the generation service
    \* ---- calculate_match_scores
    requirements,     \* the retrieved requirements text
    req_chunks,       \* the requirement statements after re-chunking
    next_req,         \* index of the next statement of the for loop
    distance,         \* statement -> distance the resume index answered
    scores            \* the dict under construction: trimmed text -> score

vars == << pc, top, outcome, vector_store_dir, storage, call, pre, built,
           resume_store, jd_store, hr_email, info, searches, completions,
           requirements, req_chunks, next_req, distance, scores >>

storeVars  == << vector_store_dir, storage, call, pre, built >>
letterVars == << hr_email, info, searches, completions >>
scoreVars  == << requirements, req_chunks, next_req, distance, scores >>
indexVars  == << resume_store, jd_store >>

-----------------------------------------------------------------------------
(* Texts *)

NL == "\n"
Whitespace == {" ", NL}

RECURSIVE lstrip(_)
lstrip(s) ==
    IF s = <<>> THEN s
    ELSE IF Head(s) \in Whitespace THEN lstrip(Tail(s)) ELSE s

RECURSIVE rstrip(_)
rstrip(s) ==
    IF s = <<>> THEN s
    ELSE IF s[Len(s)] \in Whitespace THEN rstrip(SubSeq(s, 1, Len(s) - 1)) ELSE s

\* str.strip(): leading and trailing whitespace removed
strip(s) == rstrip(lstrip(s))

\* sep.join(parts)
RECURSIVE join(_, _)
join(sep, parts) ==
    IF parts = <<>> THEN <<>>
    ELSE IF Len(parts) = 1 THEN parts[1]
    ELSE parts[1] \o sep \o join(sep, Tail(parts))

Range(f) == { f[x] : x \in DOMAIN f }


Min(S) == CHOOSE x \in S : \A y \in S : x <= y

NotEmptyText(s) == s # <<>>

-----------------------------------------------------------------------------
(* self.text_splitter: RecursiveCharacterTextSplitter(chunk_size = 500,     *)
(* chunk_overlap = 50, separators = ["\n\n", "\n", " ", ""]).  The texts of *)
(* the model are far shorter than chunk_size; what the library does with    *)
(* them is not fixed by this repository, so split_text may answer with the  *)
(* text cut at any of its line breaks, the pieces stripped or not, empty    *)
(* pieces dropped.  An empty text has no chunks.                            *)

LineBreaks(text) == { p \in 1..Len(text) : text[p] = NL }

RECURSIVE CutAt(_, _, _)
CutAt(text, cuts, from) ==
    IF cuts = {} THEN << SubSeq(text, from, Len(text)) >>
    ELSE LET p == Min(cuts)
         IN  << SubSeq(text, from, p - 1) >> \o CutAt(text, cuts \ {p}, p + 1)

StripAll(parts) == [ j \in 1..Len(parts) |-> strip(parts[j]) ]

split_text_answers(text) ==
    UNION { { SelectSeq(CutAt(text, cuts, 1), NotEmptyText),
              SelectSeq(StripAll(CutAt(text, cuts, 1)), NotEmptyText) } :
            cuts \in SUBSET LineBreaks(text) }

-----------------------------------------------------------------------------
(* self.embeddings and the FAISS index.  An embedding is an uninterpreted   *)
(* term of the text embedded.  An index holds its documents, their vectors  *)
(* and the embedding function used for queries; save_local writes the       *)
(* vectors (index.faiss) and the documents (index.pkl), load_local reads    *)
(* them back and attaches the embedding function it is given.               *)

embeddings == "sentence-transformers/all-mpnet-base-v2"

embed_documents(model, text) == [ model |-> model, of |-> text ]

from_documents(documents, model) ==
    [ docs               |-> documents,
      vectors            |-> [ j \in 1..Len(documents) |->
                                   embed_documents(model, documents[j]) ],
      embedding_function |-> model ]

NoEntry    == [ kind |-> "absent",     faiss |-> <<>>, pkl |-> <<>> ]
Unreadable == [ kind |-> "unreadable", faiss |-> <<>>, pkl |-> <<>> ]

save_local(vector_store) ==
    [ kind |-> "index", faiss |-> vector_store.vectors, pkl |-> vector_store.docs ]

load_local_raises(entry) == entry.kind # "index"

load_local(entry, model) ==
    [ docs |-> entry.pkl, vectors |-> entry.faiss, embedding_function |-> model ]

\* the test looking for a file that save_local never writes at that place
path_exists_never(store_name) == FALSE

\* os.path.exists(os.path.join(self.vector_store_path, store_name))
path_exists(store_name) == vector_store_dir /\ storage[store_name].kind # "absent"

-----------------------------------------------------------------------------
(* Bounds of the storage model *)

StoreNames == { "resume", "jd" }

Texts == { <<>>,
           << "a" >>,
           << "a", NL, "b" >>,
           << " ", "a", NL, "b", " " >> }

\* an index persisted by an earlier run of the program
EarlierIndex == from_documents(<< << "z" >> >>, embeddings)

NoIndex == from_documents(<<>>, embeddings)
NoCall  == [ text |-> <<>>, store_name |-> "", load_raised |-> FALSE,
             chunked |-> FALSE, embedded |-> FALSE, saved |-> FALSE ]
NotBuilt == [ done |-> FALSE, text |-> <<>>, index |-> NoIndex ]
Pending  == [ kind |-> "pending" ]
Returned(v) == [ kind |-> "returned", value |-> v ]
Raised      == [ kind |-> "raised" ]

IdleStore ==
    /\ vector_store_dir = FALSE
    /\ storage = [ n \in StoreNames |-> NoEntry ]
    /\ call = NoCall
    /\ pre = storage
    /\ built = [ n \in StoreNames |-> NotBuilt ]

IdleLetter ==
    /\ hr_email = ""
    /\ info = <<>>
    /\ searches = <<>>
    /\ completions = <<>>

IdleScore ==
    /\ requirements = <<>>
    /\ req_chunks = <<>>
    /\ next_req = 1
    /\ distance = <<>>
    /\ scores = <<>>

-----------------------------------------------------------------------------
(* load_or_create_vector_store(text, store_name), lines 33-57 *)

StoreInit ==
    /\ pc = "idle"
    /\ top = "none"
    /\ outcome = Pending
    /\ storage \in [ StoreNames -> { NoEntry, Unreadable, save_local(EarlierIndex) } ]
    /\ vector_store_dir \in
           IF \E n \in StoreNames : storage[n] # NoEntry THEN { TRUE } ELSE BOOLEAN
    /\ call = NoCall
    /\ pre = storage
    /\ built = [ n \in StoreNames |-> NotBuilt ]
    /\ resume_store = <<>>
    /\ jd_store = <<>>
    /\ IdleLetter
    /\ IdleScore

\* lines 39-41: the call, and the test of os.path.exists(store_path)
load_or_create_vector_store(text, store_name) ==
    /\ pc = "idle"
    /\ top' = "load_or_create_vector_store"
    /\ call' = [ NoCall EXCEPT !.text = text, !.store_name = store_name ]
    /\ pre' = storage
    /\ outcome' = Pending
    /\ pc' = IF path_exists(store_name) THEN "load" ELSE "create"
    /\ UNCHANGED << vector_store_dir, storage, built >>
    /\ UNCHANGED << indexVars, letterVars, scoreVars >>

\* lines 42-46 with the except clause dropped: a failed load reaches the caller
try_load_local_uncaught ==
    /\ pc = "load"
    /\ IF load_local_raises(storage[call.store_name])
       THEN /\ call' = [ call EXCEPT !.load_raised = TRUE ]
            /\ outcome' = Raised
            /\ pc' = "done"
       ELSE /\ outcome' = Returned(load_local(storage[call.store_name], embeddings))
            /\ pc' = "done"
            /\ UNCHANGED call
    /\ UNCHANGED << top, vector_store_dir, storage, pre, built >>
    /\ UNCHANGED << indexVars, letterVars, scoreVars >>

\* lines 42-46 with the load ignoring what is stored: the text is indexed again
try_load_local_rebuilds ==
    /\ pc = "load"
    /\ IF load_local_raises(storage[call.store_name])
       THEN /\ call' = [ call EXCEPT !.load_raised = TRUE ]
            /\ outcome' = Pending
            /\ pc' = "create"
       ELSE /\ \E chunks \in split_text_answers(call.text) :
                  outcome' = Returned(from_documents(chunks, embeddings))
            /\ call' = [ call EXCEPT !.chunked = TRUE, !.embedded = TRUE ]
            /\ pc' = "done"
    /\ UNCHANGED << top, vector_store_dir, storage, pre, built >>
    /\ UNCHANGED << indexVars, letterVars, scoreVars >>

\* lines 42-46: return FAISS.load_local(...), or print the error and go on
try_load_local ==
    /\ pc = "load"
    /\ IF load_local_raises(storage[call.store_name])
       THEN /\ call' = [ call EXCEPT !.load_raised = TRUE ]
            /\ outcome' = Pending
            /\ pc' = "create"
       ELSE /\ outcome' = Returned(load_local(storage[call.store_name], embeddings))
            /\ pc' = "done"
            /\ UNCHANGED call
    /\ UNCHANGED << top, vector_store_dir, storage, pre, built >>
    /\ UNCHANGED << indexVars, letterVars, scoreVars >>

\* lines 48-57: chunk, embed and index the text, save the index, return it
create_vector_store ==
    /\ pc = "create"
    /\ \E chunks \in split_text_answers(call.text) :
         LET vector_store == from_documents(chunks, embeddings)
         IN  /\ vector_store_dir' = TRUE
             /\ storage' = [ storage EXCEPT ![call.store_name] = save_local(vector_store) ]
             /\ built' = [ built EXCEPT ![call.store_name] =
                             [ done |-> TRUE, text |-> call.text, index |-> vector_store ] ]
             /\ outcome' = Returned(vector_store)
    /\ call' = [ call EXCEPT !.chunked = TRUE, !.embedded = TRUE, !.saved = TRUE ]
    /\ pc' = "done"
    /\ UNCHANGED << top, pre >>
    /\ UNCHANGED << indexVars, letterVars, scoreVars >>

\* the caller has the result; the next call starts from here
store_call_over ==
    /\ pc = "done"
    /\ top = "load_or_create_vector_store"
    /\ pc' = "idle"
    /\ top' = "none"
    /\ outcome' = Pending
    /\ call' = NoCall
    /\ pre' = storage
    /\ UNCHANGED << vector_store_dir, storage, built >>
    /\ UNCHANGED << indexVars, letterVars, scoreVars >>

StoreNext ==
    \/ \E text \in Texts, store_name \in StoreNames :
           load_or_create_vector_store(text, store_name)
    \/ try_load_local
    \/ create_vector_store
    \/ store_call_over

StoreSpec == StoreInit /\ [][StoreNext]_vars

-----------------------------------------------------------------------------
(* Properties of load_or_create_vector_store *)

StoreCallDone == pc = "done" /\ top = "load_or_create_vector_store"

\* the index the text of the running call can be built into
BuiltFromCallText(ix) ==
    /\ ix.docs \in split_text_answers(call.text)
    /\ ix = from_documents(ix.docs, embeddings)

\* same chunks, same vectors, same embedding function for queries
Equivalent(ix, iy) ==
    /\ ix.docs = iy.docs
    /\ ix.vectors = iy.vectors
    /\ ix.embedding_function = iy.embedding_function

\* C2: when something is stored under the name and loading it raises, the
\* call still returns: it has chunked and embedded the text of the call,
\* the index it returns is built from that text, and that index is what is
\* now persisted under the name, in place of the unreadable entry.
C2_CorruptionFallback ==
    (StoreCallDone /\ call.load_raised) =>
        /\ outcome.kind = "returned"
        /\ pre[call.store_name] = Unreadable
        /\ call.chunked /\ call.embedded /\ call.saved
        /\ BuiltFromCallText(outcome.value)
        /\ storage[call.store_name] = save_local(outcome.value)
        /\ \A n \in StoreNames \ {call.store_name} : storage[n] = pre[n]

C2_Witness ==
    /\ StoreCallDone
    /\ call.load_raised
    /\ pre[call.store_name] = Unreadable
    /\ outcome.kind = "returned"
    /\ outcome.value.docs # <<>>
    /\ storage[call.store_name].kind = "index"

\* C3: once a call has returned through the build path, the index it built
\* is persisted under the name; no later call for the name reaches the build
\* path; a later call loads without raising, without chunking or embedding,
\* and returns an index equivalent to the one that was built.
C3_CacheRoundTrip ==
    /\ \A n \in StoreNames :
           built[n].done => storage[n] = save_local(built[n].index)
    /\ (pc = "create" /\ top = "load_or_create_vector_store") =>
           ~ built[call.store_name].done
    /\ (StoreCallDone /\ built[call.store_name].done /\ ~ call.saved) =>
           /\ outcome.kind = "returned"
           /\ ~ call.load_raised /\ ~ call.chunked /\ ~ call.embedded
           /\ Equivalent(outcome.value, built[call.store_name].index)

C3_Witness ==
    /\ StoreCallDone
    /\ built[call.store_name].done
    /\ ~ call.saved
    /\ Len(built[call.store_name].index.docs) > 1
    /\ outcome.kind = "returned"
    /\ outcome.value.docs = built[call.store_name].index.docs

\* C9: a call that finds a readable index returns what load_local makes of
\* the stored entry, whatever its text argument, and leaves storage as it
\* was; once a name has been built, every call for it returns the index of
\* that build, made from the text of that build; storage differs from what
\* it was at the start of a call only by the one entry a build has just
\* written whole.
C9_LoadIgnoresText ==
    /\ (StoreCallDone /\ ~ call.saved) =>
           /\ outcome.kind = "returned"
           /\ outcome.value = load_local(pre[call.store_name], embeddings)
           /\ storage = pre
    /\ (StoreCallDone /\ built[call.store_name].done) =>
           /\ outcome.kind = "returned"
           /\ outcome.value = built[call.store_name].index
           /\ outcome.value.docs \in split_text_answers(built[call.store_name].text)
    /\ storage # pre =>
           /\ StoreCallDone /\ call.saved
           /\ \A n \in StoreNames \ {call.store_name} : storage[n] = pre[n]
           /\ storage[call.store_name] = save_local(outcome.value)
           /\ BuiltFromCallText(outcome.value)

C9_Witness ==
    /\ StoreCallDone
    /\ ~ call.saved
    /\ built[call.store_name].done
    /\ call.text # built[call.store_name].text
    /\ outcome.value.docs \notin split_text_answers(call.text)
    /\ outcome.value = built[call.store_name].index

-----------------------------------------------------------------------------
(* Indexes handed to extract_key_information, generate_cover_letter and     *)
(* calculate_match_scores.  An index is given by its documents.  A          *)
(* similarity search answers with the first k documents of some ranking of  *)
(* the index (all of them when the index holds fewer); the model takes the  *)
(* stored order and its reverse as the rankings the embedding may induce.   *)

MaxResumeDocs == 4
MaxJdDocs == 6

ResumePool == << << "p" >>, << "q" >>, << "r" >>, << "s" >>, << "t" >> >>
JdPool     == << << " ", "a" >>, << "a" >>, << "b" >>, << "a", " " >>,
                 << "c" >>, << "d" >>, << "e" >> >>

Cycle(pool, n) == [ j \in 1..n |-> pool[((j - 1) % Len(pool)) + 1] ]

ResumeStores == { Cycle(ResumePool, n) : n \in 0..MaxResumeDocs }
JdStores     == { Cycle(JdPool, n) : n \in 0..MaxJdDocs }
HrEmails     == { "hr@example.com" }

Reverse(seq) == [ j \in 1..Len(seq) |-> seq[Len(seq) + 1 - j] ]
Take(seq, k) == SubSeq(seq, 1, IF k < Len(seq) THEN k ELSE Len(seq))

\* vector_store.similarity_search(query, k = k): the documents it may return
similarity_search_answers(vector_store, query, k) ==
    { Take(vector_store, k), Take(Reverse(vector_store), k) }

\* get_relevant_context(vector_store, query, k), line 67, for one search answer
context_of(documents) == join(<< NL >>, documents)

\* get_relevant_context's default k, line 62
k_default == 3
\* the k calculate_match_scores passes, line 187
k_requirements == 5

-----------------------------------------------------------------------------
(* extract_key_information(resume_store, jd_store), lines 69-95 *)

queries ==
    [ technical_skills |->
        "What are the candidate's technical skills, programming languages, and tools?",
      soft_skills |->
        "What are the candidate's soft skills, leadership abilities, and interpersonal skills?",
      experience |->
        "What are the candidate's most relevant work experiences, projects, and achievements?",
      education |->
        "What is the candidate's educational background, degrees, and certifications?",
      job_requirements |->
        "What are the key technical requirements and qualifications for this position?",
      job_responsibilities |->
        "What are the main responsibilities and duties of this role?" ]

\* the first loop with a label left out
ResumeKeys_short == << "technical_skills", "soft_skills", "experience" >>

\* line 88
ResumeKeys == << "technical_skills", "soft_skills", "experience", "education" >>
\* line 92
JdKeys == << "job_requirements", "job_responsibilities" >>

ExtractionOrder == ResumeKeys \o JdKeys

\* every retrieval sent to the resume index
store_of_resume_only(n) == "resume_store"

\* the index the n-th retrieval of the two loops is sent to
store_of(n) == IF n <= Len(ResumeKeys) THEN "resume_store" ELSE "jd_store"

documents_of(store) == IF store = "resume_store" THEN resume_store ELSE jd_store

NoneValue == [ some |-> FALSE, v |-> "" ]
Some(x)   == [ some |-> TRUE, v |-> x ]

\* an exception leaves the running method uncaught whatever the method
on_exception_uncaught == Raised

\* an exception inside the running method: the try of generate_cover_letter
\* (lines 104, 173-175) turns it into None; the other methods have no try
on_exception ==
    IF top = "generate_cover_letter" THEN Returned(NoneValue) ELSE Raised

LetterInit ==
    /\ pc = "idle"
    /\ top = "none"
    /\ outcome = Pending
    /\ IdleStore
    /\ resume_store = <<>>
    /\ jd_store = <<>>
    /\ IdleLetter
    /\ IdleScore

extract_key_information(rs, js) ==
    /\ pc = "idle"
    /\ top' = "extract_key_information"
    /\ resume_store' = rs
    /\ jd_store' = js
    /\ info' = <<>>
    /\ searches' = <<>>
    /\ completions' = <<>>
    /\ outcome' = Pending
    /\ pc' = "extract"
    /\ UNCHANGED << hr_email, storeVars, scoreVars >>

\* line 104-106: the try block is entered and extract_key_information called
generate_cover_letter(rs, js, email) ==
    /\ pc = "idle"
    /\ top' = "generate_cover_letter"
    /\ resume_store' = rs
    /\ jd_store' = js
    /\ hr_email' = email
    /\ info' = <<>>
    /\ searches' = <<>>
    /\ completions' = <<>>
    /\ outcome' = Pending
    /\ pc' = "extract"
    /\ UNCHANGED << storeVars, scoreVars >>

Search(store, query, k, raised, answer) ==
    [ store |-> store, query |-> query, k |-> k, raised |-> raised, answer |-> answer ]

\* lines 89, 93: one get_relevant_context call that returns
retrieval_returns ==
    /\ pc = "extract"
    /\ LET n     == Len(searches) + 1
           key   == ExtractionOrder[n]
           store == store_of(n)
       IN  \E documents \in
                 similarity_search_answers(documents_of(store), queries[key], k_default) :
             /\ searches' = Append(searches,
                                Search(store, queries[key], k_default, FALSE, documents))
             /\ info' = [ l \in DOMAIN info \cup {key} |->
                            IF l = key THEN context_of(documents) ELSE info[l] ]
             /\ IF n < Len(ExtractionOrder)
                THEN pc' = "extract" /\ UNCHANGED outcome
                ELSE IF top = "extract_key_information"
                     THEN pc' = "done" /\ outcome' = Returned(info')   \* line 95
                     ELSE pc' = "complete" /\ UNCHANGED outcome         \* line 106
    /\ UNCHANGED << top, indexVars, hr_email, completions, storeVars, scoreVars >>

\* the failed retrieval answered with an empty context and the loop going on
retrieval_raises_skipped ==
    /\ pc = "extract"
    /\ LET n     == Len(searches) + 1
           key   == ExtractionOrder[n]
           store == store_of(n)
       IN  /\ searches' = Append(searches,
                              Search(store, queries[key], k_default, TRUE, <<>>))
           /\ info' = [ l \in DOMAIN info \cup {key} |->
                          IF l = key THEN <<>> ELSE info[l] ]
           /\ IF n < Len(ExtractionOrder)
              THEN pc' = "extract" /\ UNCHANGED outcome
              ELSE IF top = "extract_key_information"
                   THEN pc' = "done" /\ outcome' = Returned(info')
                   ELSE pc' = "complete" /\ UNCHANGED outcome
    /\ UNCHANGED << top, indexVars, hr_email, completions, storeVars, scoreVars >>

\* lines 89, 93: one get_relevant_context call that raises; nothing in
\* extract_key_information catches it
retrieval_raises ==
    /\ pc = "extract"
    /\ LET n     == Len(searches) + 1
           key   == ExtractionOrder[n]
           store == store_of(n)
       IN  searches' = Append(searches,
                           Search(store, queries[key], k_default, TRUE, <<>>))
    /\ outcome' = on_exception
    /\ pc' = "done"
    /\ UNCHANGED << top, indexVars, hr_email, info, completions, storeVars, scoreVars >>

-----------------------------------------------------------------------------
(* generate_cover_letter, lines 108-175 *)

\* lines 109-169: the request built from the bundle and hr_email
request ==
    [ model |-> "llama3-70b-8192", max_tokens |-> 1000, top_p |-> 1, stream |-> FALSE,
      system |-> "You are a professional cover letter writer.",
      user |-> [ info |-> info, hr_email |-> hr_email ] ]

Letters == { "", "Subject: Application" }

\* what self.client.chat.completions.create can do: raise, or answer with
\* no choices, with a choice whose message is None, with a content of None,
\* or with a text
Responses ==
    { [ kind |-> "raises", content |-> NoneValue ],
      [ kind |-> "no_choices", content |-> NoneValue ],
      [ kind |-> "no_message", content |-> NoneValue ],
      [ kind |-> "content", content |-> NoneValue ] }
    \cup { [ kind |-> "content", content |-> Some(t) ] : t \in Letters }

\* line 171 raises IndexError / AttributeError on these, line 162 on "raises"
Fails(response) == response.kind \in { "raises", "no_choices", "no_message" }

\* the call made again after a failure
create_completion_retrying ==
    /\ pc = "complete"
    /\ \E response \in Responses :
         /\ completions' = Append(completions, [ request |-> request, response |-> response ])
         /\ IF Fails(response)
            THEN pc' = "complete" /\ UNCHANGED outcome
            ELSE pc' = "done" /\ outcome' = Returned(response.content)
    /\ UNCHANGED << top, indexVars, hr_email, info, searches, storeVars, scoreVars >>

\* lines 162-175: the one call of the generation service and the return
create_completion ==
    /\ pc = "complete"
    /\ \E response \in Responses :
         /\ completions' = Append(completions, [ request |-> request, response |-> response ])
         /\ outcome' = IF Fails(response) THEN on_exception
                       ELSE Returned(response.content)
    /\ pc' = "done"
    /\ UNCHANGED << top, indexVars, hr_email, info, searches, storeVars, scoreVars >>

letter_call_over ==
    /\ pc = "done"
    /\ top \in { "extract_key_information", "generate_cover_letter" }
    /\ pc' = "idle"
    /\ top' = "none"
    /\ outcome' = Pending
    /\ resume_store' = <<>>
    /\ jd_store' = <<>>
    /\ hr_email' = ""
    /\ info' = <<>>
    /\ searches' = <<>>
    /\ completions' = <<>>
    /\ UNCHANGED << storeVars, scoreVars >>

LetterNext ==
    \/ \E rs \in ResumeStores, js \in JdStores : extract_key_information(rs, js)
    \/ \E rs \in ResumeStores, js \in JdStores, email \in HrEmails :
           generate_cover_letter(rs, js, email)
    \/ retrieval_returns
    \/ retrieval_raises
    \/ create_completion
    \/ letter_call_over

-----------------------------------------------------------------------------
(* calculate_match_scores(resume_store, jd_store), lines 177-202 *)

\* A distance is a whole number of DistUnit-ths; a score is a whole number
\* of hundredths of a percent, which is what round(score, 2) keeps.  One
\* hundredth of a percent is PerHundredth distance units.
DistUnit == 1000 * 100
PerHundredth == DistUnit \div (100 * 100)

\* distances the resume index may answer: 0, inside (0, 1), 1 and beyond 1
\* (FAISS answers with an L2 distance, which is not bounded by 1)
Distances == { 0, 25, DistUnit, DistUnit + 15, 2 * DistUnit + DistUnit \div 2 }

\* round(x, 2) of x = num / den hundredths: to the nearest, ties to even
RoundHalfEven(num, den) ==
    LET q == num \div den
        r == num % den
    IN  IF 2 * r < den THEN q
        ELSE IF 2 * r > den THEN q + 1
        ELSE IF q % 2 = 0 THEN q ELSE q + 1

\* the conversion with the sign of the distance wrong
similarity_score_plus(d) == RoundHalfEven(DistUnit + d, PerHundredth)

\* lines 199-200: round((1.0 - distance) * 100, 2)
similarity_score(d) == RoundHalfEven(DistUnit - d, PerHundredth)

requirements_query == "What are the specific requirements and qualifications?"

ScoreResumeStores == { Cycle(ResumePool, 0), Cycle(ResumePool, MaxResumeDocs) }

calculate_match_scores(rs, js) ==
    /\ pc = "idle"
    /\ top' = "calculate_match_scores"
    /\ resume_store' = rs
    /\ jd_store' = js
    /\ searches' = <<>>
    /\ requirements' = <<>>
    /\ req_chunks' = <<>>
    /\ next_req' = 1
    /\ distance' = <<>>
    /\ scores' = <<>>
    /\ outcome' = Pending
    /\ pc' = "requirements"
    /\ UNCHANGED << hr_email, info, completions, storeVars >>

\* lines 184-191: the requirements are retrieved with k = 5 and re-chunked
requirements_return ==
    /\ pc = "requirements"
    /\ \E documents \in
             similarity_search_answers(jd_store, requirements_query, k_requirements) :
         /\ searches' = Append(searches,
                Search("jd_store", requirements_query, k_requirements, FALSE, documents))
         /\ requirements' = context_of(documents)
         /\ req_chunks' \in split_text_answers(context_of(documents))
    /\ pc' = "score"
    /\ UNCHANGED << top, outcome, indexVars, hr_email, info, completions,
                    next_req, distance, scores, storeVars >>

\* line 184: the retrieval raises; calculate_match_scores has no try
requirements_raise ==
    /\ pc = "requirements"
    /\ searches' = Append(searches,
           Search("jd_store", requirements_query, k_requirements, TRUE, <<>>))
    /\ outcome' = on_exception
    /\ pc' = "done"
    /\ UNCHANGED << top, indexVars, hr_email, info, completions, scoreVars, storeVars >>

\* the key of line 200 without the strip
score_key_raw(req) == req

\* line 200: the key of a requirement statement
score_key(req) == strip(req)

\* lines 194-200: one pass of the loop whose lookup returns.  The index
\* answers the same query with the same distance.
score_requirement ==
    /\ pc = "score"
    /\ next_req <= Len(req_chunks)
    /\ LET req == req_chunks[next_req]
       IN  /\ searches' = Append(searches,
                  Search("resume_store", req, 1, FALSE, Take(resume_store, 1)))
           /\ IF resume_store = <<>>
              THEN UNCHANGED << distance, scores >>            \* matches == []
              ELSE \E d \in IF req \in DOMAIN distance THEN { distance[req] }
                            ELSE Distances :
                     /\ distance' = [ q \in DOMAIN distance \cup {req} |->
                                        IF q = req THEN d ELSE distance[q] ]
                     /\ scores' = [ t \in DOMAIN scores \cup {score_key(req)} |->
                                      IF t = score_key(req) THEN similarity_score(d)
                                      ELSE scores[t] ]
    /\ next_req' = next_req + 1
    /\ UNCHANGED << pc, top, outcome, indexVars, hr_email, info, completions,
                    requirements, req_chunks, storeVars >>

\* line 196: the lookup raises
score_requirement_raises ==
    /\ pc = "score"
    /\ next_req <= Len(req_chunks)
    /\ searches' = Append(searches,
           Search("resume_store", req_chunks[next_req], 1, TRUE, <<>>))
    /\ outcome' = on_exception
    /\ pc' = "done"
    /\ UNCHANGED << top, indexVars, hr_email, info, completions, scoreVars, storeVars >>

\* line 202
return_scores ==
    /\ pc = "score"
    /\ next_req > Len(req_chunks)
    /\ outcome' = Returned(scores)
    /\ pc' = "done"
    /\ UNCHANGED << top, indexVars, letterVars, scoreVars, storeVars >>

score_call_over ==
    /\ pc = "done"
    /\ top = "calculate_match_scores"
    /\ pc' = "idle"
    /\ top' = "none"
    /\ outcome' = Pending
    /\ resume_store' = <<>>
    /\ jd_store' = <<>>
    /\ searches' = <<>>
    /\ requirements' = <<>>
    /\ req_chunks' = <<>>
    /\ next_req' = 1
    /\ distance' = <<>>
    /\ scores' = <<>>
    /\ UNCHANGED << hr_email, info, completions, storeVars >>

ScoreNext ==
    \/ \E rs \in ScoreResumeStores, js \in JdStores : calculate_match_scores(rs, js)
    \/ requirements_return
    \/ requirements_raise
    \/ score_requirement
    \/ score_requirement_raises
    \/ return_scores
    \/ score_call_over

Init == LetterInit

Next == LetterNext \/ ScoreNext

\* the three methods that work on indexes already loaded
Spec == Init /\ [][Next]_vars

-----------------------------------------------------------------------------
(* Properties of extract_key_information and generate_cover_letter *)

SixLabels == << "technical_skills", "soft_skills", "experience", "education",
                "job_requirements", "job_responsibilities" >>

SomeSearchRaised == \E n \in 1..Len(searches) : searches[n].raised
SomeCompletionFailed == \E c \in 1..Len(completions) : Fails(completions[c].response)

GenerateDone == pc = "done" /\ top = "generate_cover_letter"
ExtractReturned ==
    pc = "done" /\ top = "extract_key_information" /\ outcome.kind = "returned"
ScoresReturned ==
    pc = "done" /\ top = "calculate_match_scores" /\ outcome.kind = "returned"

\* C1: generate_cover_letter never raises to its caller.  When it is over it
\* has returned; it has returned None if a retrieval raised, if the
\* generation call raised or if the response had no choices or no message;
\* and it has returned a text only if all six retrievals returned and the
\* one generation call answered with that text.
C1_FailureContainment ==
    top = "generate_cover_letter" =>
        /\ outcome.kind # "raised"
        /\ pc = "done" =>
             /\ outcome.kind = "returned"
             /\ (SomeSearchRaised \/ SomeCompletionFailed) => outcome.value = NoneValue
             /\ outcome.value.some =>
                  /\ Len(searches) = 6
                  /\ ~ SomeSearchRaised
                  /\ Len(completions) = 1
                  /\ completions[1].response.kind = "content"
                  /\ completions[1].response.content = outcome.value

C1_Witness ==
    /\ GenerateDone
    /\ Len(searches) = 5
    /\ searches[5].raised
    /\ DOMAIN info # {}
    /\ outcome = Returned(NoneValue)

\* C4: the bundle extract_key_information returns, and the bundle that
\* generate_cover_letter puts in its request, has exactly the six labels as
\* keys, also when some contexts are empty.
C4_BundleComplete ==
    /\ ExtractReturned => DOMAIN outcome.value = Range(SixLabels)
    /\ \A c \in 1..Len(completions) :
           DOMAIN completions[c].request.user.info = Range(SixLabels)

C4_Witness ==
    /\ ExtractReturned
    /\ outcome.value["education"] = <<>>
    /\ outcome.value["job_requirements"] # <<>>
    /\ Cardinality(DOMAIN outcome.value) = 6

\* C7: in extract_key_information and calculate_match_scores a retrieval or
\* lookup that raises is the last one performed, the method is over, and
\* the caller gets the exception and no bundle or score set.
C7_FailuresPropagate ==
    \A n \in 1..Len(searches) :
        searches[n].raised =>
            /\ n = Len(searches)
            /\ pc = "done"
            /\ top \in { "extract_key_information", "calculate_match_scores" } =>
                   outcome = Raised

C7_Witness ==
    /\ pc = "done"
    /\ top = "calculate_match_scores"
    /\ Len(req_chunks) > 2
    /\ Len(searches) = 3
    /\ searches[3].raised
    /\ DOMAIN scores # {}
    /\ outcome = Raised

\* C8: when extract_key_information returns it has performed six searches,
\* each with k = 3 and the query of its label; the first four were answered
\* by resume_store and the last two by jd_store; and each label's value is
\* the newline-joined answer of its own search.
C8_SixRetrievals ==
    ExtractReturned =>
        /\ Len(searches) = 6
        /\ \A n \in 1..6 :
             LET label == SixLabels[n]
                 index == IF n <= 4 THEN resume_store ELSE jd_store
             IN  /\ searches[n].k = 3
                 /\ ~ searches[n].raised
                 /\ searches[n].query = queries[label]
                 /\ searches[n].store = IF n <= 4 THEN "resume_store" ELSE "jd_store"
                 /\ searches[n].answer \in
                        { Take(index, 3), Take(Reverse(index), 3) }
                 /\ outcome.value[label] = join(<< NL >>, searches[n].answer)

C8_Witness ==
    /\ ExtractReturned
    /\ Len(resume_store) > 3
    /\ Len(jd_store) > 3
    /\ Len(searches[4].answer) = 3
    /\ searches[4].answer # searches[1].answer
    /\ outcome.value["job_responsibilities"] = join(<< NL >>, Take(Reverse(jd_store), 3))

\* C10: in a generate_cover_letter call the generation service is called at
\* most once, only after six retrievals that all returned, with the bundle
\* of those retrievals; after a retrieval has raised it is not called; and
\* once it has been called, whatever it answered, the method is over.
C10_OneGenerationCall ==
    top = "generate_cover_letter" =>
        /\ Len(completions) <= 1
        /\ SomeSearchRaised => completions = <<>>
        /\ completions # <<>> =>
             /\ Len(searches) = 6
             /\ ~ SomeSearchRaised
             /\ completions[1].request.user.info = info
             /\ \A n \in 1..6 : info[SixLabels[n]] = join(<< NL >>, searches[n].answer)
             /\ pc = "done"

C10_Witness ==
    /\ GenerateDone
    /\ Len(completions) = 1
    /\ completions[1].response.kind = "raises"
    /\ outcome = Returned(NoneValue)

-----------------------------------------------------------------------------
(* Properties of calculate_match_scores *)

\* the last statement of req_chunks whose trimmed text is t
LastWithKey(t) ==
    req_chunks[CHOOSE j \in 1..Len(req_chunks) :
                   /\ strip(req_chunks[j]) = t
                   /\ \A m \in (j + 1)..Len(req_chunks) : strip(req_chunks[m]) # t]

\* C5: if every distance the resume index answered lies in [0, 1], every
\* returned score lies in [0, 100]; each score is (1 - distance) * 100 of a
\* statement with that key, rounded to hundredths and not clamped.
C5_ScoreRange ==
    ScoresReturned =>
        /\ \A t \in DOMAIN outcome.value :
             \E q \in DOMAIN distance :
                /\ strip(q) = t
                /\ outcome.value[t] =
                       RoundHalfEven(DistUnit - distance[q], 10)
        /\ (\A q \in DOMAIN distance : 0 <= distance[q] /\ distance[q] <= DistUnit) =>
               \A t \in DOMAIN outcome.value :
                   0 <= outcome.value[t] /\ outcome.value[t] <= 100 * 100

C5_Witness ==
    /\ ScoresReturned
    /\ \A q \in DOMAIN distance : 0 <= distance[q] /\ distance[q] <= DistUnit
    /\ \E q \in DOMAIN distance : distance[q] = 25
    /\ \E t \in DOMAIN outcome.value : outcome.value[t] = 9998
    /\ \E t \in DOMAIN outcome.value : outcome.value[t] = 0
    /\ \E t \in DOMAIN outcome.value : outcome.value[t] = 10000

\* C6 as stated: every statement with a match has its trimmed text as a key
\* whose value is the score of that statement's own distance, and every
\* statement without a match has no entry.
C6_AsClaimed ==
    ScoresReturned =>
        \A j \in 1..Len(req_chunks) :
            IF resume_store # <<>>
            THEN /\ strip(req_chunks[j]) \in DOMAIN outcome.value
                 /\ outcome.value[strip(req_chunks[j])] =
                        RoundHalfEven(DistUnit - distance[req_chunks[j]], 10)
            ELSE strip(req_chunks[j]) \notin DOMAIN outcome.value

\* C6, amended: the keys are exactly the trimmed texts of the statements
\* with a match; the value of a key is the score of the distance of the last
\* statement with that trimmed text; with no match at all the result is
\* empty.
C6_LastStatementWins ==
    ScoresReturned =>
        /\ DOMAIN outcome.value =
               IF resume_store # <<>>
               THEN { strip(req_chunks[j]) : j \in 1..Len(req_chunks) }
               ELSE {}
        /\ \A t \in DOMAIN outcome.value :
               outcome.value[t] =
                   RoundHalfEven(DistUnit - distance[LastWithKey(t)], 10)

C6_Witness ==
    /\ ScoresReturned
    /\ resume_store # <<>>
    /\ \E j \in 1..Len(req_chunks) : \E m \in (j + 1)..Len(req_chunks) :
          /\ req_chunks[j] # req_chunks[m]
          /\ strip(req_chunks[j]) = strip(req_chunks[m])
          /\ strip(req_chunks[j]) # req_chunks[j]
          /\ distance[req_chunks[j]] # distance[req_chunks[m]]
          /\ \A x \in (m + 1)..Len(req_chunks) : strip(req_chunks[x]) # strip(req_chunks[m])
          /\ outcome.value[strip(req_chunks[m])] =
                 RoundHalfEven(DistUnit - distance[req_chunks[m]], 10)
          /\ outcome.value[strip(req_chunks[m])] #
                 RoundHalfEven(DistUnit - distance[req_chunks[j]], 10)

=============================================================================
